---- MODULE Spec2Model ----
(***************************************************************************)
(* A model of scripts/clangd_lint.py: the batch driver `main`, the session *)
(* `lint_file` that talks to one clangd subprocess over a Content-Length   *)
(* framed JSON-RPC stream, and the helpers send_request,                   *)
(* send_notification and read_response.                                    *)
(*                                                                         *)
(* Time is counted in ticks of one poll slice (0.1 s): the timeout that    *)
(* lint_file passes to read_response.  `elapsed` is time.time() - start.   *)
(* A select() that times out takes exactly one slice; a select() that      *)
(* returns at once because bytes (or end-of-file) are there takes less     *)
(* than a slice, which on the tick grid is either 0 or 1.                  *)
(***************************************************************************)
EXTENDS Integers, Sequences, FiniteSets, TLC

VARIABLES
    files,           \* main: the list of target files (sys.argv[1:] or the glob)
    mainpc,          \* main: "start" | "loop" | "insession" | "done" | "aborted"
    idx,             \* main: number of files whose lint_file call has returned
    total_warnings,  \* main: total_warnings
    printed,         \* main: the diagnostic lines printed so far
    exitStatus,      \* main: the value returned to sys.exit (-1: none yet)
    results,         \* history: what each finished lint_file call returned
    lpc,             \* lint_file: position in the function
    proc,            \* the subprocess: "none" | "running" | "exited" | "reaped"
    diagnostics,     \* lint_file: diagnostics
    initialized,     \* lint_file: initialized
    file_opened,     \* lint_file: file_opened
    elapsed,         \* lint_file: time.time() - start, in ticks
    sent,            \* what this session wrote to proc.stdin, in order
    stream,          \* frames written by the server to proc.stdout, not yet read
    pool,            \* the frames the server of this run may emit
    budget,          \* how many more frames the server may emit in this run
    consumed,        \* history: the frames read_response took off the stream
    quiet            \* history: ticks since the last frame was taken, counted
                     \* up to QuietCap (Absent: no frame taken yet)

vars == <<files, mainpc, idx, total_warnings, printed,
          exitStatus, results, lpc, proc, diagnostics, initialized,
          file_opened, elapsed, sent, stream, pool, budget, consumed, quiet>>

mainVars == <<files, mainpc, idx, total_warnings, printed,
              exitStatus, results>>

(***************************************************************************)
(* Program constants, in ticks of 0.1 s.                                   *)
(***************************************************************************)
PollSlice == 1
Deadline == 50
SettleSleep == 2
InitializeId == 1

(***************************************************************************)
(* Bounds of the model.                                                    *)
(***************************************************************************)
MaxFiles == 2
MaxEmit == 3
MaxStream == 2

(***************************************************************************)
(* Diagnostics and messages.  A diagnostic keeps the fields main reads     *)
(* that decide a line's content: severity, range.start.line and            *)
(* range.start.character.  Absent stands for a key the mapping lacks.      *)
(***************************************************************************)
Absent == -1

Diag(sev, line, ch) == [severity |-> sev, line |-> line, character |-> ch]

Warn4 == Diag(2, 4, 2)
Err0 == Diag(1, 0, 0)
Info3 == Diag(3, 3, 1)
Hint7 == Diag(4, 7, 0)

\* A frame on proc.stdout.  kind "msg": a well-formed frame whose payload is
\* a non-empty JSON object with the keys below; "falsy": a well-formed frame
\* whose payload is the empty object; "nolength": a header block without a
\* Content-Length line (or with length 0); "malformed": a frame whose length
\* is not a number or whose payload is not JSON; "partialheader": bytes of
\* a header line with no line end yet; "partialbody": a complete header
\* with fewer payload bytes than it declares.
Frame(kind, id, method, result, uri, diags) ==
    [kind |-> kind, id |-> id, method |-> method, result |-> result,
     uri |-> uri, diags |-> diags]

InitResponse == Frame("msg", InitializeId, "none", TRUE, "none", <<>>)
OtherResponse == Frame("msg", 2, "none", TRUE, "none", <<>>)
LogNotification == Frame("msg", Absent, "window/logMessage", FALSE, "none", <<>>)
ServerRequest == Frame("msg", 7, "workspace/configuration", FALSE, "none", <<>>)
PublishDiagnostics(uri, diags) ==
    Frame("msg", Absent, "textDocument/publishDiagnostics", FALSE, uri, diags)
PDEmpty == PublishDiagnostics("this", <<>>)
PDWarn == PublishDiagnostics("this", <<Warn4>>)
PDInfo == PublishDiagnostics("this", <<Info3, Hint7>>)
PDErr == PublishDiagnostics("this", <<Err0>>)
PDMixed == PublishDiagnostics("this", <<Err0, Warn4>>)
PDOther == PublishDiagnostics("other", <<Err0>>)
FalsyFrame == Frame("falsy", Absent, "none", FALSE, "none", <<>>)
NoLengthFrame == Frame("nolength", Absent, "none", FALSE, "none", <<>>)
MalformedFrame == Frame("malformed", Absent, "none", FALSE, "none", <<>>)

\* What the server of a run may emit.
CorePool == {InitResponse, PDEmpty, PDWarn}
NotifyPool == {InitResponse, LogNotification, PDWarn}
WrongIdPool == {InitResponse, OtherResponse, PDWarn}
DiagnosticsPool == {InitResponse, PDInfo, PDMixed}

(***************************************************************************)
(* send_request / send_notification: frame the message and write it to     *)
(* proc.stdin.  The write raises BrokenPipeError when the subprocess has    *)
(* exited.  A written message is recorded by its method and id.            *)
(***************************************************************************)
Written(method, id) == [method |-> method, id |-> id]

SendRequest(p, out, method, id) ==
    IF p = "running"
    THEN [ok |-> TRUE, sent |-> Append(out, Written(method, id))]
    ELSE [ok |-> FALSE, sent |-> out]

SendNotification(p, out, method) ==
    IF p = "running"
    THEN [ok |-> TRUE, sent |-> Append(out, Written(method, Absent))]
    ELSE [ok |-> FALSE, sent |-> out]

(***************************************************************************)
(* read_response(proc, timeout).  str is what proc.stdout holds, p the     *)
(* state of the subprocess.  tag "timeout": select found nothing within    *)
(* the timeout, None is returned; "none": a frame (or end-of-file) was     *)
(* read and None is returned; "value": json.loads(body) is returned;       *)
(* "raise": int() or json.loads raised; "blocked": readline() or read()    *)
(* waits for bytes the server has not written.                             *)
(***************************************************************************)
NoFrame == Frame("none", Absent, "none", FALSE, "none", <<>>)

\* read_response without its select: it reads at once, and so waits for a
\* header line however long the server takes to write one.
ReadResponseNoSelect(str, p) ==
    IF str = <<>>
    THEN [tag |-> IF p = "running" THEN "blocked" ELSE "none",
          resp |-> NoFrame, rest |-> str]
    ELSE [tag |-> IF Head(str).kind \in {"msg", "falsy"} THEN "value"
                  ELSE "raise",
          resp |-> Head(str), rest |-> Tail(str)]

ReadResponse(str, p) ==
    IF str = <<>>
    THEN [tag |-> IF p = "running" THEN "timeout" ELSE "none",
          resp |-> NoFrame, rest |-> str]
    ELSE LET f == Head(str)
         IN [tag |-> CASE f.kind = "msg" -> "value"
                       [] f.kind = "falsy" -> "value"
                       [] f.kind = "nolength" -> "none"
                       [] f.kind = "partialheader" ->
                            IF p = "running" THEN "blocked" ELSE "none"
                       [] f.kind = "partialbody" ->
                            IF p = "running" THEN "blocked" ELSE "raise"
                       [] OTHER -> "raise",
             resp |-> f, rest |-> Tail(str)]

\* `if resp:` / `while (resp := ...)`: None and an empty mapping are false.
Truthy(r) == r.tag = "value" /\ r.resp.kind = "msg"

\* How long the call took: the whole timeout when select timed out, and
\* dt (less than a slice) when select returned at once.
PollTime(r, dt) == IF r.tag = "timeout" THEN PollSlice ELSE dt

\* The history variable quiet after a step that took d ticks.
QuietCap == SettleSleep + PollSlice + 1

Quiet(q, took, d) ==
    IF took THEN 0
    ELSE IF q = Absent THEN Absent
    ELSE IF q + d > QuietCap THEN QuietCap ELSE q + d

\* while time.time() - start < 5
DeadlineNotReached(t) == t < Deadline

\* resp.get("method") == "textDocument/publishDiagnostics"
IsPublishDiagnostics(resp) == resp.method = "textDocument/publishDiagnostics"

\* An extend that skips the records the list already holds.
RECURSIVE AppendNew(_, _)
AppendNew(diags, more) ==
    IF more = <<>> THEN diags
    ELSE AppendNew(IF \E i \in DOMAIN diags : diags[i] = Head(more)
                   THEN diags ELSE Append(diags, Head(more)), Tail(more))

ExtendDeduplicated(diags, resp) == AppendNew(diags, resp.diags)

\* diagnostics.extend(resp.get("params", {}).get("diagnostics", []))
Extend(diags, resp) == diags \o resp.diags

\* The first message that is not a publishDiagnostics taken as the answer
\* to initialize: correlation by arrival position.
IsInitializeResultByPosition(resp, init) == ~init

\* A test that forgets the handshake is over: every message with a result
\* is answered with "initialized".
IsInitializeResultEveryTime(resp, init) == resp.result

\* A test for an id in place of a result: a server request passes it.
IsInitializeResultById(resp, init) == resp.id # Absent /\ ~init

\* elif "result" in resp and not initialized
IsInitializeResult(resp, init) == resp.result /\ ~init

\* A settle branch that waits for a second record.
SettleReadyAfterTwo(opened, diags) == opened /\ Len(diags) > 1

\* A settle branch taken as soon as the document is open.
SettleReadyOnceOpened(opened, diags) == opened

\* if file_opened and diagnostics
SettleReady(opened, diags) == opened /\ diags # <<>>

(***************************************************************************)
(* main's report of one file's diagnostics (the inner for loop).           *)
(***************************************************************************)
\* d.get("severity", 1)
Severity(d) == IF d.severity = Absent THEN 1 ELSE d.severity

\* A threshold one severity too far.
QualifiesThroughInformation(d) == Severity(d) <= 3

\* d.get("severity", 1) <= 2
Qualifies(d) == Severity(d) <= 2

\* d.get("range", {}).get("start", {}).get(key, 0) + 1
OneBased(n) == (IF n = Absent THEN 0 ELSE n) + 1

PrintedLine(path, d) ==
    [path |-> path, line |-> OneBased(d.line), col |-> OneBased(d.character)]

RECURSIVE ReportLines(_, _)
ReportLines(path, diags) ==
    IF diags = <<>> THEN <<>>
    ELSE (IF Qualifies(Head(diags)) THEN <<PrintedLine(path, Head(diags))>>
          ELSE <<>>) \o ReportLines(path, Tail(diags))

(***************************************************************************)
(* The initial state: main has read its arguments; no session yet.         *)
(***************************************************************************)
\* The target files, each named by its position in the list.
FileLists == {[i \in 1..n |-> i] : n \in 0..MaxFiles}

InitCommon ==
    /\ mainpc = "start"
    /\ idx = 0
    /\ total_warnings = 0
    /\ printed = <<>>
    /\ exitStatus = Absent
    /\ results = <<>>
    /\ lpc = "idle"
    /\ proc = "none"
    /\ diagnostics = <<>>
    /\ initialized = FALSE
    /\ file_opened = FALSE
    /\ elapsed = 0
    /\ sent = <<>>
    /\ stream = <<>>
    /\ budget = MaxEmit
    /\ consumed = <<>>
    /\ quiet = Absent

Init ==
    /\ InitCommon
    /\ files \in FileLists
    /\ pool = CorePool

(***************************************************************************)
(* main                                                                    *)
(***************************************************************************)
sessionVars == <<lpc, proc, diagnostics, initialized, file_opened, elapsed,
                 sent, stream, consumed, quiet>>

\* if not files: print("No files to check"); return 0
MainStart ==
    /\ mainpc = "start"
    /\ IF files = <<>>
       THEN mainpc' = "done" /\ exitStatus' = 0
       ELSE mainpc' = "loop" /\ exitStatus' = exitStatus
    /\ UNCHANGED <<files, idx, total_warnings, printed,
                   results, sessionVars, pool, budget>>

\* for filepath in files: diags = lint_file(filepath, root_dir), up to and
\* including lint_file's subprocess.Popen(...) and diagnostics = [].
\* Popen raises FileNotFoundError when clangd cannot be started; nothing in
\* lint_file or main catches it.
CallLintFile ==
    /\ mainpc = "loop"
    /\ idx < Len(files)
    /\ \E launched \in BOOLEAN :
         IF launched
         THEN /\ proc' = "running"
              /\ lpc' = "init"
              /\ mainpc' = "insession"
         ELSE /\ proc' = "none"
              /\ lpc' = "raised"
              /\ mainpc' = "aborted"
    /\ diagnostics' = <<>>
    /\ initialized' = FALSE
    /\ file_opened' = FALSE
    /\ elapsed' = 0
    /\ sent' = <<>>
    /\ stream' = <<>>
    /\ consumed' = <<>>
    /\ quiet' = Absent
    /\ UNCHANGED <<files, idx, total_warnings, printed,
                   exitStatus, results, pool, budget>>

\* The inner loop of main over the diagnostics lint_file returned.
MainReport ==
    /\ mainpc = "insession"
    /\ lpc = "returned"
    /\ LET lines == ReportLines(idx + 1, diagnostics)
       IN /\ printed' = printed \o lines
          /\ total_warnings' = total_warnings + Len(lines)
    /\ results' = Append(results, diagnostics)
    /\ idx' = idx + 1
    /\ mainpc' = "loop"
    /\ lpc' = "idle"
    /\ UNCHANGED <<files, exitStatus, proc, diagnostics,
                   initialized, file_opened, elapsed, sent, stream, consumed,
                   quiet, pool, budget>>

\* The summary and return 0 if total_warnings == 0 else 1
MainFinish ==
    /\ mainpc = "loop"
    /\ idx = Len(files)
    /\ exitStatus' = IF total_warnings = 0 THEN 0 ELSE 1
    /\ mainpc' = "done"
    /\ UNCHANGED <<files, idx, total_warnings, printed,
                   results, sessionVars, pool, budget>>

(***************************************************************************)
(* lint_file                                                               *)
(***************************************************************************)
\* send_request(proc, "initialize", ..., 1); start = time.time();
\* initialized = False; file_opened = False
SendInitialize ==
    /\ lpc = "init"
    /\ LET w == SendRequest(proc, sent, "initialize", InitializeId)
       IN /\ sent' = w.sent
          /\ IF w.ok
             THEN lpc' = "loop" /\ mainpc' = mainpc
             ELSE lpc' = "raised" /\ mainpc' = "aborted"
    /\ elapsed' = 0
    /\ initialized' = FALSE
    /\ file_opened' = FALSE
    /\ UNCHANGED <<files, idx, total_warnings, printed,
                   exitStatus, results, proc, diagnostics, stream, consumed,
                   quiet, pool, budget>>

\* One iteration of `while time.time() - start < 5`, up to the sleep of the
\* settle branch.
LoopIteration ==
    /\ lpc = "loop"
    /\ DeadlineNotReached(elapsed)
    /\ \E dt \in {0, PollSlice}, readable \in BOOLEAN :
         LET r == ReadResponse(stream, proc)
             now == elapsed + PollTime(r, dt)
             took == r.rest # stream
             truthy == r.tag # "raise" /\ Truthy(r)
             isPD == truthy /\ IsPublishDiagnostics(r.resp)
             diags1 == IF isPD THEN Extend(diagnostics, r.resp)
                       ELSE diagnostics
             initNow == truthy /\ ~isPD
                        /\ IsInitializeResult(r.resp, initialized)
             init1 == initialized \/ initNow
             w1 == IF initNow THEN SendNotification(proc, sent, "initialized")
                   ELSE [ok |-> TRUE, sent |-> sent]
             openNow == r.tag # "raise" /\ w1.ok /\ init1 /\ ~file_opened
             w2 == IF openNow /\ readable
                   THEN SendNotification(proc, w1.sent, "textDocument/didOpen")
                   ELSE [ok |-> TRUE, sent |-> w1.sent]
             opened1 == file_opened \/ openNow
             raised == \/ r.tag = "raise"
                       \/ ~w1.ok
                       \/ (openNow /\ ~readable)
                       \/ ~w2.ok
         IN /\ r.tag # "blocked"
            /\ elapsed' = now
            /\ stream' = r.rest
            /\ consumed' = IF took THEN Append(consumed, r.resp) ELSE consumed
            /\ quiet' = Quiet(quiet, took, PollTime(r, dt))
            /\ diagnostics' = diags1
            /\ initialized' = init1
            /\ file_opened' = opened1
            /\ sent' = w2.sent
            /\ IF raised
               THEN lpc' = "raised" /\ mainpc' = "aborted"
               ELSE /\ lpc' = IF SettleReady(opened1, diags1) THEN "settle"
                              ELSE "loop"
                    /\ mainpc' = mainpc
    /\ UNCHANGED <<files, idx, total_warnings, printed,
                   exitStatus, results, proc, pool, budget>>

\* The while condition is false: fall out of the loop.
LoopExit ==
    /\ lpc = "loop"
    /\ ~DeadlineNotReached(elapsed)
    /\ lpc' = "terminate"
    /\ UNCHANGED <<mainVars, proc, diagnostics, initialized, file_opened,
                   elapsed, sent, stream, consumed, quiet, pool, budget>>

\* time.sleep(0.2)
Settle ==
    /\ lpc = "settle"
    /\ elapsed' = elapsed + SettleSleep
    /\ quiet' = Quiet(quiet, FALSE, SettleSleep)
    /\ lpc' = "drain"
    /\ UNCHANGED <<mainVars, proc, diagnostics, initialized, file_opened,
                   sent, stream, consumed, pool, budget>>

\* One iteration of `while (resp := read_response(proc, 0.1))`, or the
\* break after it.
Drain ==
    /\ lpc = "drain"
    /\ \E dt \in {0, PollSlice} :
         LET r == ReadResponse(stream, proc)
             now == elapsed + PollTime(r, dt)
             took == r.rest # stream
             truthy == r.tag # "raise" /\ Truthy(r)
             isPD == truthy /\ IsPublishDiagnostics(r.resp)
         IN /\ r.tag # "blocked"
            /\ elapsed' = now
            /\ stream' = r.rest
            /\ consumed' = IF took THEN Append(consumed, r.resp) ELSE consumed
            /\ quiet' = Quiet(quiet, took, PollTime(r, dt))
            /\ diagnostics' = IF isPD THEN Extend(diagnostics, r.resp)
                              ELSE diagnostics
            /\ IF r.tag = "raise"
               THEN lpc' = "raised" /\ mainpc' = "aborted"
               ELSE /\ lpc' = IF truthy THEN "drain" ELSE "terminate"
                    /\ mainpc' = mainpc
    /\ UNCHANGED <<files, idx, total_warnings, printed,
                   exitStatus, results, proc, initialized, file_opened, sent,
                   pool, budget>>

\* A teardown without proc.wait(): the subprocess is signalled and left
\* unreaped.
TerminateWithoutWait ==
    /\ lpc = "terminate"
    /\ proc' = "exited"
    /\ lpc' = "returned"
    /\ UNCHANGED <<mainVars, diagnostics, initialized, file_opened, elapsed,
                   sent, stream, consumed, quiet, pool, budget>>

\* proc.terminate(); proc.wait(); return diagnostics
Terminate ==
    /\ lpc = "terminate"
    /\ proc' = "reaped"
    /\ lpc' = "returned"
    /\ UNCHANGED <<mainVars, diagnostics, initialized, file_opened, elapsed,
                   sent, stream, consumed, quiet, pool, budget>>

(***************************************************************************)
(* The subprocess.                                                         *)
(***************************************************************************)
SessionActive == lpc \in {"init", "loop", "settle", "drain", "terminate"}

\* The server writes one frame to its standard output.
ServerEmit ==
    /\ SessionActive
    /\ proc = "running"
    /\ budget > 0
    /\ Len(stream) < MaxStream
    /\ \E f \in pool : stream' = Append(stream, f)
    /\ budget' = budget - 1
    /\ UNCHANGED <<mainVars, lpc, proc, diagnostics, initialized, file_opened,
                   elapsed, sent, consumed, quiet, pool>>

\* The server exits by itself (a crash, a fatal configuration error).
ServerExit ==
    /\ SessionActive
    /\ proc = "running"
    /\ proc' = "exited"
    /\ UNCHANGED <<mainVars, lpc, diagnostics, initialized, file_opened,
                   elapsed, sent, stream, consumed, quiet, pool, budget>>

Next ==
    \/ MainStart
    \/ CallLintFile
    \/ MainReport
    \/ MainFinish
    \/ SendInitialize
    \/ LoopIteration
    \/ LoopExit
    \/ Settle
    \/ Drain
    \/ Terminate
    \/ ServerEmit
    \/ ServerExit

Spec == Init /\ [][Next]_vars

(***************************************************************************)
(* Runs against other servers: one that answers with a foreign id, one     *)
(* that sends notifications, one that publishes several kinds of           *)
(* diagnostics.                                                            *)
(***************************************************************************)
InitWrongId == InitCommon /\ files \in FileLists /\ pool = WrongIdPool

SpecWrongId == InitWrongId /\ [][Next]_vars

InitNotify == InitCommon /\ files \in FileLists /\ pool = NotifyPool

SpecNotify == InitNotify /\ [][Next]_vars

InitDiagnostics == InitCommon /\ files \in FileLists /\ pool = DiagnosticsPool

SpecDiagnostics == InitDiagnostics /\ [][Next]_vars

(***************************************************************************)
(* Runs against a subprocess that starts, stays alive and never writes a   *)
(* byte.  The steps of main and lint_file are those of one sequential      *)
(* program, which always takes its next step: weak fairness of the whole   *)
(* next-state relation.                                                    *)
(***************************************************************************)
InitSilent == InitCommon /\ files \in FileLists /\ pool = {}

NextSilent ==
    \/ MainStart
    \/ CallLintFile
    \/ MainReport
    \/ MainFinish
    \/ SendInitialize
    \/ LoopIteration
    \/ LoopExit
    \/ Terminate

FairSilent == InitSilent /\ [][NextSilent]_vars /\ WF_vars(NextSilent)

(***************************************************************************)
(* Properties.                                                             *)
(***************************************************************************)
InitializeRequest == Written("initialize", InitializeId)

IsPublished(f) ==
    f.kind = "msg" /\ f.method = "textDocument/publishDiagnostics"

\* A server notification: a method, no id, no result.
IsNotification(f) ==
    f.kind = "msg" /\ f.method # "none" /\ f.id = Absent /\ ~f.result

SettleWindow == SettleSleep + PollSlice

\* C1: against a subprocess that never writes anything, a session that has
\* sent its initialize request always comes to return, and when it returns
\* its result is empty and no more than the deadline plus one poll slice
\* has passed since the request was sent.
C1_SilentServerReturnsByDeadline ==
    /\ (lpc = "loop") ~> (lpc = "returned")
    /\ [](lpc = "returned" =>
            diagnostics = <<>> /\ elapsed <= Deadline + PollSlice)

C1_Witness ==
    /\ lpc = "returned"
    /\ sent = <<InitializeRequest>>
    /\ consumed = <<>>
    /\ diagnostics = <<>>
    /\ elapsed >= Deadline

\* C2: once the overall deadline has expired, a session that is still
\* running is at the loop test, about to leave the loop, or in teardown; it
\* is not about to sleep or to poll in the settle drain.
C2_NoWaitingPastDeadline ==
    (SessionActive /\ lpc # "init" /\ ~DeadlineNotReached(elapsed))
        => lpc \in {"loop", "terminate"}

\* C3: when control has left lint_file, by return or by an exception, the
\* subprocess it launched is not running any more.
C3_SubprocessTerminatedOnEveryExit ==
    lpc \in {"returned", "raised"} => proc # "running"

\* C4: an error raised inside one file's session does not abort main: the
\* run goes on to the remaining files, the summary and the exit status.
C4_SessionErrorDoesNotAbortMain ==
    lpc = "raised" => mainpc # "aborted"

\* C5: the session has gone past the handshake (it is initialized, or it
\* has written more than the initialize request) only if it has received a
\* message whose id is the id of the initialize request.
C5_HandshakeCompletesOnlyOnMatchingId ==
    (initialized \/ Len(sent) > 1) =>
        \E i \in DOMAIN consumed :
            consumed[i].kind = "msg" /\ consumed[i].id = InitializeId

\* C6: as long as everything received in a session is server notifications
\* (publishDiagnostics included), the session is not initialized, has
\* written nothing but the initialize request, has not entered the settle
\* branch, and leaves the loop only at the deadline.
C6_NotificationsDoNotCompleteHandshake ==
    (/\ lpc \in {"loop", "settle", "drain", "terminate", "returned"}
     /\ \A i \in DOMAIN consumed : IsNotification(consumed[i]))
        => /\ ~initialized
           /\ ~file_opened
           /\ sent = <<InitializeRequest>>
           /\ lpc \notin {"settle", "drain"}
           /\ (lpc \in {"terminate", "returned"}
                 => ~DeadlineNotReached(elapsed))

C6_Witness ==
    /\ lpc = "loop"
    /\ consumed = <<PDWarn, LogNotification>>
    /\ diagnostics # <<>>
    /\ ~initialized
    /\ sent = <<InitializeRequest>>

\* C7: what lint_file returns is the concatenation, in the order of
\* arrival, of the diagnostics arrays of the publishDiagnostics messages
\* the session read: nothing dropped, repeated, merged or reordered.
RECURSIVE ConcatPublished(_)
ConcatPublished(frames) ==
    IF frames = <<>> THEN <<>>
    ELSE (IF IsPublished(Head(frames)) THEN Head(frames).diags ELSE <<>>)
         \o ConcatPublished(Tail(frames))

C7_ResultIsArrivalOrderConcatenation ==
    lpc = "returned" => diagnostics = ConcatPublished(consumed)

C7_Witness ==
    /\ lpc = "returned"
    /\ consumed = <<InitResponse, PDMixed, PDMixed>>
    /\ diagnostics = <<Err0, Warn4, Err0, Warn4>>

\* C8: a session in which the document is open, the last message received
\* is a publishDiagnostics (whatever its diagnostics array holds) and a
\* settle window has since passed without a message is not still polling
\* in the main loop before the deadline.
C8_AnyPublishThenQuietEndsCollecting ==
    ~(/\ lpc = "loop"
      /\ DeadlineNotReached(elapsed)
      /\ file_opened
      /\ consumed # <<>>
      /\ IsPublished(consumed[Len(consumed)])
      /\ quiet >= SettleWindow)

\* C9: when all a session receives is the initialize response and then one
\* publishDiagnostics with one Warning at zero-based line 4, it returns
\* exactly that record once the settle sleep and at most one further poll
\* slice have passed since the message, and main prints it as line 5,
\* column 3.
OneWarningScenario ==
    consumed = <<InitResponse, PDWarn>> /\ stream = <<>>

C9_OneWarningSettlesAndPrintsLineFive ==
    /\ (lpc = "returned" /\ OneWarningScenario)
          => /\ diagnostics = <<Warn4>>
             /\ quiet >= SettleSleep
             /\ quiet <= SettleWindow
    /\ (lpc = "idle" /\ idx > 0 /\ OneWarningScenario)
          => /\ results[idx] = <<Warn4>>
             /\ printed # <<>>
             /\ printed[Len(printed)] = [path |-> idx, line |-> 5, col |-> 3]

C9_Witness ==
    /\ lpc = "idle"
    /\ idx = 1
    /\ OneWarningScenario
    /\ elapsed < Deadline
    /\ printed = <<[path |-> 1, line |-> 5, col |-> 3]>>

\* C10: when main returns, its status is 0 exactly when no diagnostic
\* returned for any file has severity Error or Warning, and 1 otherwise;
\* the total it prints is the number of diagnostic lines it printed.
RECURSIVE CountErrorsAndWarnings(_)
CountErrorsAndWarnings(diags) ==
    IF diags = <<>> THEN 0
    ELSE (IF Head(diags).severity \in {1, 2} THEN 1 ELSE 0)
         + CountErrorsAndWarnings(Tail(diags))

RECURSIVE CountOverFiles(_)
CountOverFiles(rs) ==
    IF rs = <<>> THEN 0
    ELSE CountErrorsAndWarnings(Head(rs)) + CountOverFiles(Tail(rs))

C10_ExitStatusCountsErrorsAndWarnings ==
    mainpc = "done" =>
        /\ Len(results) = Len(files)
        /\ exitStatus = (IF CountOverFiles(results) = 0 THEN 0 ELSE 1)
        /\ total_warnings = CountOverFiles(results)
        /\ total_warnings = Len(printed)

C10_Witness ==
    /\ mainpc = "done"
    /\ Len(files) = 2
    /\ exitStatus = 0
    /\ results[1] = <<Info3, Hint7>>
    /\ results[2] = <<>>

(***************************************************************************)
(* Runs against a server that also publishes diagnostics for a document    *)
(* this session did not open.                                              *)
(***************************************************************************)
OtherUriPool == {InitResponse, PDOther, PDWarn}

InitOtherUri == InitCommon /\ files \in FileLists /\ pool = OtherUriPool

SpecOtherUri == InitOtherUri /\ [][Next]_vars

\* The uri this session names in textDocument/didOpen: file://{abs_path}.
OpenedUri == "this"

RECURSIVE ConcatMatching(_)
ConcatMatching(frames) ==
    IF frames = <<>> THEN <<>>
    ELSE (IF IsPublished(Head(frames)) /\ Head(frames).uri = OpenedUri
          THEN Head(frames).diags ELSE <<>>)
         \o ConcatMatching(Tail(frames))

\* C11: what lint_file returns holds only the records of publishDiagnostics
\* messages whose uri is the uri of the document this session opened; and
\* the session enters the settle branch only with such a record at hand.
C11_OnlyMatchingDocumentAppended ==
    /\ lpc = "returned" => diagnostics = ConcatMatching(consumed)
    /\ lpc = "settle" => ConcatMatching(consumed) # <<>>

(***************************************************************************)
(* Framing, byte by byte.  A text is a sequence of characters; a character *)
(* is a one-letter string, or "eacute" for U+00E9, which UTF-8 encodes in  *)
(* two bytes.  A byte is the ASCII character it stands for, or "xC3",      *)
(* "xA9".  "CR" and "LF" are the two line-end characters.  The JSON text   *)
(* of a message is abbreviated to its id, its method and one string of its *)
(* params, between braces: what decides a frame's length and its           *)
(* boundaries is kept (decimal numbers, string escapes, non-ASCII text).   *)
(***************************************************************************)
MaxText == 1
MaxFrames == 2

TextChars == {"a", "\"", "eacute"}

Texts == UNION {[1..n -> TextChars] : n \in 0..MaxText}

\* The messages written in a framing run: requests (send_request) carry an
\* id, notifications (send_notification) carry none.
Messages ==
    {[id |-> i, method |-> <<"i">>, text |-> t] : i \in {1, 12}, t \in Texts}
    \cup {[id |-> Absent, method |-> <<"o">>, text |-> t] : t \in Texts}

DigitChars == <<"0", "1", "2", "3", "4", "5", "6", "7", "8", "9">>

\* str(n) for n >= 0, as the f-string formats len(msg)
RECURSIVE Digits(_)
Digits(n) ==
    IF n < 10 THEN <<DigitChars[n + 1]>>
    ELSE Digits(n \div 10) \o <<DigitChars[(n % 10) + 1]>>

IsDigit(c) == \E d \in 1..10 : DigitChars[d] = c

DigitValue(c) == (CHOOSE d \in 1..10 : DigitChars[d] = c) - 1

\* int(value): Absent stands for the ValueError of a text that is no number
RECURSIVE ParseDigits(_, _)
ParseDigits(chars, acc) ==
    IF chars = <<>> THEN acc
    ELSE IF ~IsDigit(Head(chars)) THEN Absent
    ELSE ParseDigits(Tail(chars), 10 * acc + DigitValue(Head(chars)))

ParseInt(chars) == IF chars = <<>> THEN Absent ELSE ParseDigits(chars, 0)

\* json.dumps of one character of a string, ensure_ascii=True (the default)
JsonEscape(c) ==
    CASE c = "\"" -> <<"\\", "\"">>
      [] c = "\\" -> <<"\\", "\\">>
      [] c = "eacute" -> <<"\\", "u", "0", "0", "e", "9">>
      [] OTHER -> <<c>>

\* json.dumps of one character with ensure_ascii=False
JsonEscapeRaw(c) ==
    CASE c = "\"" -> <<"\\", "\"">>
      [] c = "\\" -> <<"\\", "\\">>
      [] OTHER -> <<c>>

RECURSIVE EscapeAll(_)
EscapeAll(text) ==
    IF text = <<>> THEN <<>>
    ELSE JsonEscape(Head(text)) \o EscapeAll(Tail(text))

RECURSIVE EscapeAllRaw(_)
EscapeAllRaw(text) ==
    IF text = <<>> THEN <<>>
    ELSE JsonEscapeRaw(Head(text)) \o EscapeAllRaw(Tail(text))

\* A json.dumps that leaves non-ASCII characters as they are.
DumpsRaw(m) ==
    <<"{">> \o (IF m.id = Absent THEN <<>> ELSE Digits(m.id) \o <<",">>)
            \o m.method \o <<"\"">> \o EscapeAllRaw(m.text) \o <<"\"", "}">>

\* msg = json.dumps({"jsonrpc": "2.0", "id": msg_id, "method": method,
\*                   "params": params})
Dumps(m) ==
    <<"{">> \o (IF m.id = Absent THEN <<>> ELSE Digits(m.id) \o <<",">>)
            \o m.method \o <<"\"">> \o EscapeAll(m.text) \o <<"\"", "}">>

\* str.encode(): UTF-8
RECURSIVE Utf8Encode(_)
Utf8Encode(chars) ==
    IF chars = <<>> THEN <<>>
    ELSE (IF Head(chars) = "eacute" THEN <<"xC3", "xA9">> ELSE <<Head(chars)>>)
         \o Utf8Encode(Tail(chars))

\* bytes.decode(): <<"invalid">> stands for UnicodeDecodeError
RECURSIVE Utf8Decode(_)
Utf8Decode(bytes) ==
    IF bytes = <<>> THEN <<>>
    ELSE IF Head(bytes) = "xC3"
    THEN IF Len(bytes) >= 2 /\ bytes[2] = "xA9"
         THEN LET rest == Utf8Decode(Tail(Tail(bytes)))
              IN IF rest = <<"invalid">> THEN rest ELSE <<"eacute">> \o rest
         ELSE <<"invalid">>
    ELSE IF Head(bytes) = "xA9" THEN <<"invalid">>
    ELSE LET rest == Utf8Decode(Tail(bytes))
         IN IF rest = <<"invalid">> THEN rest ELSE <<Head(bytes)>> \o rest

\* content = f"Content-Length: {len(msg)}\r\n\r\n{msg}"; content.encode()
EncodeFrame(m) ==
    Utf8Encode(<<"Content-Length", ":", " ">> \o Digits(Len(Dumps(m)))
               \o <<"CR", "LF", "CR", "LF">> \o Dumps(m))

\* The value that stands for an exception raised while decoding.
DecodeError == [id |-> Absent, method |-> <<>>, text |-> <<"error">>]

\* The value that stands for None.
NoValue == [id |-> Absent, method |-> <<>>, text |-> <<"none">>]

\* The characters of a JSON string up to its closing quote, unescaped.
RECURSIVE UnescapeString(_, _)
UnescapeString(chars, acc) ==
    IF chars = <<>> THEN [ok |-> FALSE, text |-> acc, rest |-> <<>>]
    ELSE IF Head(chars) = "\""
    THEN [ok |-> TRUE, text |-> acc, rest |-> Tail(chars)]
    ELSE IF Head(chars) = "\\"
    THEN IF Len(chars) >= 2 /\ chars[2] \in {"\"", "\\"}
         THEN UnescapeString(SubSeq(chars, 3, Len(chars)),
                             Append(acc, chars[2]))
         ELSE IF Len(chars) >= 6
                 /\ SubSeq(chars, 2, 6) = <<"u", "0", "0", "e", "9">>
         THEN UnescapeString(SubSeq(chars, 7, Len(chars)),
                             Append(acc, "eacute"))
         ELSE [ok |-> FALSE, text |-> acc, rest |-> <<>>]
    ELSE UnescapeString(Tail(chars), Append(acc, Head(chars)))

\* The longest prefix of chars that satisfies Stop nowhere.
RECURSIVE UpTo(_, _)
UpTo(chars, stops) ==
    IF chars = <<>> \/ Head(chars) \in stops THEN <<>>
    ELSE <<Head(chars)>> \o UpTo(Tail(chars), stops)

\* json.loads(body)
Loads(chars) ==
    IF Len(chars) < 2 \/ Head(chars) # "{" \/ chars[Len(chars)] # "}"
    THEN DecodeError
    ELSE LET inner == SubSeq(chars, 2, Len(chars) - 1)
             hasId == inner # <<>> /\ IsDigit(Head(inner))
             idText == IF hasId THEN UpTo(inner, {","}) ELSE <<>>
             afterId == IF hasId
                        THEN SubSeq(inner, Len(idText) + 2, Len(inner))
                        ELSE inner
             method == UpTo(afterId, {"\""})
             afterMethod == SubSeq(afterId, Len(method) + 2, Len(afterId))
             str == UnescapeString(afterMethod, <<>>)
         IN IF \/ (hasId /\ ParseInt(idText) = Absent)
               \/ Len(method) >= Len(afterId)
               \/ ~str.ok
               \/ str.rest # <<>>
            THEN DecodeError
            ELSE [id |-> IF hasId THEN ParseInt(idText) ELSE Absent,
                  method |-> method, text |-> str.text]

\* line.strip(): the characters of the line without the white space at
\* its ends
RECURSIVE StripLeft(_)
StripLeft(chars) ==
    IF chars # <<>> /\ Head(chars) \in {" ", "CR", "LF"}
    THEN StripLeft(Tail(chars)) ELSE chars

RECURSIVE StripRight(_)
StripRight(chars) ==
    IF chars # <<>> /\ chars[Len(chars)] \in {" ", "CR", "LF"}
    THEN StripRight(SubSeq(chars, 1, Len(chars) - 1)) ELSE chars

Strip(chars) == StripRight(StripLeft(chars))

\* proc.stdout.readline(): the bytes up to and including the first LF, or
\* all of them when there is none (end of file)
RECURSIVE LineLength(_)
LineLength(bytes) ==
    IF bytes = <<>> THEN 0
    ELSE IF Head(bytes) = "LF" THEN 1
    ELSE 1 + LineLength(Tail(bytes))

\* The position of the first ": " in line (0: none)
RECURSIVE ColonSpace(_, _)
ColonSpace(line, at) ==
    IF Len(line) < at + 1 THEN 0
    ELSE IF line[at] = ":" /\ line[at + 1] = " " THEN at
    ELSE ColonSpace(line, at + 1)

\* The header loop of read_response: lengthText is
\* headers.get("Content-Length") (<<"0">> when no such header was read),
\* rest the bytes after the blank line.
RECURSIVE ReadHeaders(_, _)
ReadHeaders(bytes, lengthText) ==
    LET n == LineLength(bytes)
        line == Strip(Utf8Decode(SubSeq(bytes, 1, n)))
        rest == SubSeq(bytes, n + 1, Len(bytes))
        at == ColonSpace(line, 1)
    IN IF line = <<>> THEN [lengthText |-> lengthText, rest |-> rest]
       ELSE IF at > 0 /\ SubSeq(line, 1, at - 1) = <<"Content-Length">>
       THEN ReadHeaders(rest, SubSeq(line, at + 2, Len(line)))
       ELSE ReadHeaders(rest, lengthText)

\* read_response on the bytes proc.stdout holds, once select has found it
\* readable: value is what is returned, rest the bytes left on the stream.
ReadResponseBytes(bytes) ==
    LET h == ReadHeaders(bytes, <<"0">>)
        length == ParseInt(h.lengthText)
        n == IF length > Len(h.rest) THEN Len(h.rest) ELSE length
        body == Utf8Decode(SubSeq(h.rest, 1, n))
    IN IF length = Absent THEN [value |-> DecodeError, rest |-> h.rest]
       ELSE IF length = 0 THEN [value |-> NoValue, rest |-> h.rest]
       ELSE [value |-> IF body = <<"invalid">> THEN DecodeError
                       ELSE Loads(body),
             rest |-> SubSeq(h.rest, n + 1, Len(h.rest))]

(***************************************************************************)
(* A framing run: the subprocess echoes what it reads.  sent holds the     *)
(* messages written with send_request and send_notification, stream the    *)
(* bytes they put on the stream and read_response has not taken, consumed  *)
(* the values read_response returned.                                      *)
(***************************************************************************)
InitFraming ==
    /\ files = <<>>
    /\ mainpc = "start"
    /\ idx = 0
    /\ total_warnings = 0
    /\ printed = <<>>
    /\ exitStatus = Absent
    /\ results = <<>>
    /\ lpc = "echo"
    /\ proc = "running"
    /\ diagnostics = <<>>
    /\ initialized = FALSE
    /\ file_opened = FALSE
    /\ elapsed = 0
    /\ sent = <<>>
    /\ stream = <<>>
    /\ pool = {}
    /\ budget = 0
    /\ consumed = <<>>
    /\ quiet = Absent

\* send_request(proc, method, params, msg_id) or
\* send_notification(proc, method, params): the frame is written.
WriteFrame ==
    /\ lpc = "echo"
    /\ Len(sent) < MaxFrames
    /\ \E m \in Messages :
         /\ sent' = Append(sent, m)
         /\ stream' = stream \o EncodeFrame(m)
    /\ UNCHANGED <<mainVars, lpc, proc, diagnostics, initialized, file_opened,
                   elapsed, pool, budget, consumed, quiet>>

\* read_response(proc, 0.1) with bytes to read.
ReadFrame ==
    /\ lpc = "echo"
    /\ stream # <<>>
    /\ LET r == ReadResponseBytes(stream)
       IN /\ consumed' = Append(consumed, r.value)
          /\ stream' = r.rest
    /\ UNCHANGED <<mainVars, lpc, proc, diagnostics, initialized, file_opened,
                   elapsed, sent, pool, budget, quiet>>

NextFraming ==
    \/ WriteFrame
    \/ ReadFrame

SpecFraming == InitFraming /\ [][NextFraming]_vars

RECURSIVE EncodeAll(_)
EncodeAll(msgs) ==
    IF msgs = <<>> THEN <<>>
    ELSE EncodeFrame(Head(msgs)) \o EncodeAll(Tail(msgs))

\* The length a frame declares: the number after "Content-Length: ".
DeclaredLength(m) ==
    ParseInt(ReadHeaders(EncodeFrame(m), <<"0">>).lengthText)

\* C12: on a stream that carries the frames written by send_request and
\* send_notification, read_response returns the messages written, one per
\* call and in order; what is left on the stream is exactly the frames not
\* yet read; and the length each frame declares is the number of bytes of
\* its payload.
C12_FramingRoundTrip ==
    lpc = "echo" =>
        /\ Len(consumed) <= Len(sent)
        /\ \A i \in DOMAIN consumed : consumed[i] = sent[i]
        /\ stream = EncodeAll(SubSeq(sent, Len(consumed) + 1, Len(sent)))
        /\ \A i \in DOMAIN sent :
             DeclaredLength(sent[i]) = Len(Utf8Encode(Dumps(sent[i])))

C12_Witness ==
    /\ lpc = "echo"
    /\ Len(consumed) = 2
    /\ consumed[1] = [id |-> 12, method |-> <<"i">>, text |-> <<"eacute">>]
    /\ consumed[2] = [id |-> Absent, method |-> <<"o">>, text |-> <<"\"">>]
    /\ stream = <<>>


(***************************************************************************)
(* Runs against a server that writes a frame in two parts: first a piece   *)
(* of a header line, or the headers and a piece of the payload, and the    *)
(* remainder later.  While the remainder is missing the partial frame is   *)
(* the last thing on the stream.                                           *)
(***************************************************************************)
PartialHeaderFrame ==
    Frame("partialheader", Absent, "none", FALSE, "none", <<>>)

PartialBodyFrame == Frame("partialbody", Absent, "none", FALSE, "none", <<>>)

PartialPool == {InitResponse, PartialHeaderFrame, PartialBodyFrame}

IsPartial(f) == f.kind \in {"partialheader", "partialbody"}

InitPartial == InitCommon /\ files \in FileLists /\ pool = PartialPool

\* The server starts a frame once the one before it is written in full.
ServerEmitNext ==
    /\ IF stream = <<>> THEN TRUE ELSE ~IsPartial(stream[Len(stream)])
    /\ ServerEmit

\* The server writes the remainder of the frame it left unfinished.
ServerComplete ==
    /\ SessionActive
    /\ proc = "running"
    /\ stream # <<>>
    /\ IsPartial(stream[Len(stream)])
    /\ \E f \in {InitResponse, PDWarn} :
         stream' = [stream EXCEPT ![Len(stream)] = f]
    /\ UNCHANGED <<mainVars, lpc, proc, diagnostics, initialized, file_opened,
                   elapsed, sent, consumed, quiet, pool, budget>>

NextPartial ==
    \/ MainStart
    \/ CallLintFile
    \/ MainReport
    \/ MainFinish
    \/ SendInitialize
    \/ LoopIteration
    \/ LoopExit
    \/ Settle
    \/ Drain
    \/ Terminate
    \/ ServerEmitNext
    \/ ServerComplete
    \/ ServerExit

SpecPartial == InitPartial /\ [][NextPartial]_vars

\* C13: wherever a session is about to call read_response (in the deadline
\* loop or in the settle drain), the call returns within its timeout with
\* a message, None or an error, whatever the stream holds; it does not wait
\* for bytes the server has not written.
C13_PollNeverBlocks ==
    ((lpc = "loop" /\ DeadlineNotReached(elapsed)) \/ lpc = "drain")
        => ReadResponse(stream, proc).tag # "blocked"


\* C14: in every session the messages written to the subprocess are a
\* prefix of: the initialize request (id 1), the "initialized"
\* notification, the "textDocument/didOpen" notification, whatever the
\* server sends; within a session what is written only grows; and nothing
\* is written once the settle branch or the teardown has begun.
HandshakeMessages ==
    <<InitializeRequest, Written("initialized", Absent),
      Written("textDocument/didOpen", Absent)>>

IsPrefix(s, t) == Len(s) <= Len(t) /\ SubSeq(t, 1, Len(s)) = s

C14_HandshakeMessagesOnceAndInOrder ==
    /\ [](IsPrefix(sent, HandshakeMessages))
    /\ [][SessionActive => IsPrefix(sent, sent')]_vars
    /\ [][(lpc \in {"settle", "drain", "terminate", "returned"})
             => (sent' = sent)]_vars

C14_Witness ==
    /\ lpc = "returned"
    /\ consumed = <<OtherResponse, InitResponse, PDWarn>>
    /\ sent = HandshakeMessages


\* C15: main gives the files one session each, one after the other.  proc
\* is the subprocess launched last.  A session starts only when main is
\* between sessions, for the first file without a result, and with the
\* subprocess launched before it (if any) reaped; as a reaped subprocess
\* stays reaped, at most one subprocess is alive at any time.  Main comes
\* back between sessions only by recording the result of a session whose
\* subprocess is reaped and moving on to the next file, and the file index
\* changes at no other step: no file is given a second session.
SessionStarts == lpc = "idle" /\ lpc' # "idle"

SessionEnds == lpc # "idle" /\ lpc' = "idle"

C15_OneSessionPerFileInSequence ==
    /\ [][(lpc' = "init") => (lpc = "init" \/ SessionStarts)]_vars
    /\ [][SessionStarts =>
            (/\ proc \in {"none", "reaped"}
             /\ idx < Len(files)
             /\ Len(results) = idx
             /\ idx' = idx)]_vars
    /\ [][SessionEnds =>
            (/\ proc = "reaped"
             /\ proc' = proc
             /\ idx' = idx + 1
             /\ Len(results') = idx')]_vars
    /\ [][(idx' # idx) => SessionEnds]_vars

C15_Witness ==
    /\ lpc = "loop"
    /\ proc = "running"
    /\ idx = 1
    /\ Len(results) = 1
    /\ Len(files) = 2


(***************************************************************************)
(* Runs on one file against a server that also sends a request of its own  *)
(* and a notification this program does not know.                          *)
(***************************************************************************)
IgnoredPool == {InitResponse, ServerRequest, LogNotification, PDWarn}

InitIgnored == InitCommon /\ files = <<1>> /\ pool = IgnoredPool

SpecIgnored == InitIgnored /\ [][Next]_vars

\* A message that is neither a publishDiagnostics nor taken as the answer
\* to initialize: it has no result, or the session is initialized already.
Ignorable(f, init) ==
    f.kind = "msg" /\ ~IsPublished(f) /\ (~f.result \/ init)

\* read_response returns such a message to the deadline loop or the drain.
ReadsIgnorable ==
    /\ lpc \in {"loop", "drain"}
    /\ stream # <<>>
    /\ Ignorable(Head(stream), initialized)
    /\ stream' = Tail(stream)
    /\ consumed' = Append(consumed, Head(stream))

\* C16: a step in which the session reads a message that is neither a
\* publishDiagnostics nor the initialize response (an unknown notification,
\* a server request with method and id, a response after initialization)
\* leaves the diagnostics, both flags and what has been written as they
\* are, raises nothing, and leaves the session polling in the same loop.
C16_OtherMessagesAreIgnored ==
    [][ReadsIgnorable =>
         (/\ diagnostics' = diagnostics
          /\ initialized' = initialized
          /\ file_opened' = file_opened
          /\ sent' = sent
          /\ lpc' = lpc
          /\ mainpc' = mainpc)]_vars

C16_Witness ==
    /\ lpc = "drain"
    /\ consumed = <<InitResponse, PDWarn, ServerRequest>>
    /\ diagnostics = <<Warn4>>
    /\ initialized
    /\ file_opened


\* C17: records are appended only while the session is collecting: as long
\* as "textDocument/didOpen" has not been sent (file_opened is false) the
\* list of diagnostics is empty, whatever the server has published.
C17_RecordsOnlyWhileCollecting ==
    (lpc \in {"loop", "settle", "drain", "terminate", "returned"}
     /\ ~file_opened)
        => diagnostics = <<>>


\* C18: when lint_file returns before the deadline has elapsed,
\* "textDocument/didOpen" has been written and the list it returns is not
\* empty; an empty list is returned only once the deadline loop has run
\* out.
DidOpen == Written("textDocument/didOpen", Absent)

C18_EarlyReturnHasDiagnostics ==
    lpc = "returned" =>
        /\ DeadlineNotReached(elapsed) =>
              /\ \E i \in DOMAIN sent : sent[i] = DidOpen
              /\ diagnostics # <<>>
        /\ diagnostics = <<>> => elapsed >= Deadline

C18_Witness ==
    /\ lpc = "returned"
    /\ DeadlineNotReached(elapsed)
    /\ elapsed > 0
    /\ sent = <<InitializeRequest, Written("initialized", Absent), DidOpen>>
    /\ diagnostics = <<Warn4>>


(***************************************************************************)
(* Runs on one file against a server that also writes frames without a     *)
(* payload (no Content-Length header, or Content-Length: 0) and frames     *)
(* whose payload is an empty JSON value, and that may write one frame      *)
(* more than the servers above.                                            *)
(***************************************************************************)
EmptyFramePool == {InitResponse, PDWarn, NoLengthFrame, FalsyFrame}

InitEmptyFrame ==
    /\ files = <<1>>
    /\ pool = EmptyFramePool
    /\ budget = MaxEmit + 1
    /\ mainpc = "start"
    /\ idx = 0
    /\ total_warnings = 0
    /\ printed = <<>>
    /\ exitStatus = Absent
    /\ results = <<>>
    /\ lpc = "idle"
    /\ proc = "none"
    /\ diagnostics = <<>>
    /\ initialized = FALSE
    /\ file_opened = FALSE
    /\ elapsed = 0
    /\ sent = <<>>
    /\ stream = <<>>
    /\ consumed = <<>>
    /\ quiet = Absent

SpecEmptyFrame == InitEmptyFrame /\ [][Next]_vars

\* C19: the settle drain stops only because a poll found the stream quiet.
\* A session that went through the settle branch does not come to teardown
\* straight from reading a frame (no time has passed since) while a
\* publishDiagnostics the server has written waits on the stream.
C19_DrainStopsOnlyOnQuietStream ==
    ~(/\ lpc = "terminate"
      /\ SettleReady(file_opened, diagnostics)
      /\ quiet = 0
      /\ stream # <<>>
      /\ IsPublished(Head(stream)))

====
